---- MODULE Spec2Model ----
(***************************************************************************)
(* Model of presentation.ipynb: symmetric uniform quantization, vector and *)
(* product quantization with k-means codebooks, and lookup-table dot       *)
(* products.  Real values are exact rationals: matrix entries are integer  *)
(* multiples of a unit (one tenth for the sample matrix), so float32       *)
(* rounding of the arithmetic itself is outside the model.  IEEE special   *)
(* values (inf, nan) and the float -> int8 cast are modelled.              *)
(***************************************************************************)
EXTENDS Integers, Sequences, FiniteSets, TLC

VARIABLES
    x,                    \* argument of quantize_symmetric (rows of entries)
    num_bits,             \* argument of quantize_symmetric
    bound,                \* names bound in the kernel namespace
    exc,                  \* exception raised by the last cell ("none" if it completed)
    fpe,                  \* numpy floating-point warnings emitted so far
    quantized_matrix,     \* int8 codes returned by quantize_symmetric
    scale,                \* scale returned by quantize_symmetric
    q_cast,               \* local q of quantize_symmetric after astype, before clip
    reconstructed_matrix, \* result of dequantize_symmetric
    last,                 \* the cell executed last ("" before any)
    matrix,               \* create_sample_matrix() of the VQ and PQ cells (data, matrix)
    K,                    \* number of VQ centroids (constant of cell 3)
    M,                    \* number of PQ subspaces (constant of cell 5)
    pc,                   \* clusters per subspace (constant of cell 5)
    codebook,             \* VQ codebook: K scalars
    indices,              \* VQ codes of the flattened matrix
    reconstructed,        \* VQ reconstruction
    sub_dim,              \* d // M
    codebooks,            \* PQ codebooks: per subspace, pc centroids of sub_dim entries
    pq_codes,             \* PQ codes, n x M
    reconstructed_pq,     \* PQ reconstruction
    query,                \* query vector of the lookup cell
    query_subs,           \* the query split into subspaces
    lookup_tables,        \* per subspace, dot(query_sub, centroid) per centroid
    dot_products,         \* per row, the sum of the looked-up entries
    rng,                  \* draws taken from numpy's global random generator
    jobpc,                \* per subspace, the position of its training job in the loop body
    order,                \* the subspaces in the order their fits started
    kmeans,               \* per subspace, the fitted estimator's cluster_centers_
    codes                 \* per subspace, the codes list entry (kmeans.predict(sub))

uqvars == <<x, num_bits, quantized_matrix, scale, q_cast, reconstructed_matrix, fpe>>
kernel == <<bound, exc, last>>
cfgvars == <<matrix, K, M, pc>>
vqvars == <<codebook, indices, reconstructed>>
pqvars == <<sub_dim, codebooks, pq_codes, reconstructed_pq>>
lkvars == <<query, query_subs, lookup_tables, dot_products>>
cbvars == <<cfgvars, vqvars, pqvars, lkvars>>
jobvars == <<rng, jobpc, order, kmeans, codes>>
vars == <<uqvars, kernel, cbvars, jobvars>>

(* no training job of the PQ loop is in progress *)
NoJobs == rng = 0 /\ jobpc = <<>> /\ order = <<>> /\ kmeans = <<>> /\ codes = <<>>

----------------------------------------------------------------------------
(* Bounds of the uniform-quantizer inputs *)
MaxBits == 9
MaxAbsX == 3

(* Width of np.int8 *)
Int8Bits == 8

Int8Min == -(2^(Int8Bits - 1))
Int8Max == 2^(Int8Bits - 1) - 1

Abs(v) == IF v < 0 THEN -v ELSE v

RECURSIVE SeqMax(_)
SeqMax(s) == IF Len(s) = 1 THEN s[1]
             ELSE LET m == SeqMax(Tail(s)) IN IF s[1] > m THEN s[1] ELSE m

(* create_sample_matrix(), in tenths *)
create_sample_matrix ==
    << << 1,  -5,   0,  10>>,
       <<25, -12,   7,  -3>>,
       << 9,  15, -20,   2>> >>

(* Floating-point values: a finite rational n/d (d > 0), +inf, or nan *)
Fin(n, d) == [tag |-> "fin", n |-> n, d |-> d]
Inf == [tag |-> "inf", n |-> 1, d |-> 0]
NaN == [tag |-> "nan", n |-> 0, d |-> 0]

(* max_val = np.max(np.abs(x)) *)
MaxAbs(m) == SeqMax([r \in 1..Len(m) |-> SeqMax([c \in 1..Len(m[r]) |-> Abs(m[r][c])])])

(* qmax = 2**(num_bits - 1) - 1 *)
QmaxOffByOne(nb) == 2^nb - 1
Qmax(nb) == 2^(nb - 1) - 1

(* scale = max_val / qmax  (float division: x/0 is inf, 0/0 is nan) *)
ScaleOf(max_val, qmax) ==
    IF qmax = 0 THEN (IF max_val = 0 THEN NaN ELSE Inf)
    ELSE Fin(max_val, qmax)

(* x / scale, element-wise *)
DivByScale(v, s) ==
    CASE s.tag = "nan" -> NaN
      [] s.tag = "inf" -> Fin(0, 1)
      [] s.tag = "fin" /\ s.n = 0 -> (IF v = 0 THEN NaN ELSE Inf)
      [] OTHER -> Fin(v * s.d, s.n)

(* floor(n/d) for d > 0 *)
FloorDiv(n, d) == n \div d

(* np.round: round half to even, of n/d with d > 0 *)
RoundHalfEven(n, d) ==
    LET f == FloorDiv(n, d)
        r2 == 2 * (n - f * d)
    IN  IF r2 < d THEN f
        ELSE IF r2 > d THEN f + 1
        ELSE IF f % 2 = 0 THEN f ELSE f + 1

(* two's-complement wrap into int8 *)
WrapInt8(v) == ((v - Int8Min) % (2^Int8Bits)) + Int8Min
SatInt8(v) == IF v > Int8Max THEN Int8Max ELSE IF v < Int8Min THEN Int8Min ELSE v

(* np.round(f).astype(np.int8): the outcomes the cast can produce.  In range
   it is exact; out of range or non-finite the C cast is undefined: the low
   byte of the int32 conversion (wrap) or a saturated value. *)
CastInt8(f) ==
    IF f.tag = "fin"
    THEN LET r == RoundHalfEven(f.n, f.d)
         IN  IF r >= Int8Min /\ r <= Int8Max THEN {r}
             ELSE {WrapInt8(r), SatInt8(r)}
    ELSE {0, Int8Min}

(* np.clip(q, -qmax, qmax) = minimum(maximum(q, -qmax), qmax) *)
Clip(q, qmax) ==
    LET lo == IF q < -qmax THEN -qmax ELSE q
    IN  IF lo > qmax THEN qmax ELSE lo

(* set of sequences s with s[i] \in sets[i] *)
RECURSIVE SeqProduct(_)
SeqProduct(sets) ==
    IF Len(sets) = 0 THEN {<<>>}
    ELSE {<<h>> \o t : h \in sets[1], t \in SeqProduct(Tail(sets))}

(* floating-point warnings of one call: the exceptional divisions performed *)
DivWarnings(m, s, max_val, qmax) ==
    (IF qmax = 0 THEN {"max_val/qmax"} ELSE {})
    \cup (IF \E r \in 1..Len(m) : \E c \in 1..Len(m[r]) :
                DivByScale(m[r][c], s).tag # "fin"
           THEN {"x/scale"} ELSE {})

(* quantize_symmetric(x, num_bits): the set of results [cast, q, scale, warn]
   the call can return; it has no raise and no early return *)
quantize_symmetric(m, nb) ==
    LET max_val == MaxAbs(m)
        qmax == Qmax(nb)
        s == ScaleOf(max_val, qmax)
        casts == SeqProduct([r \in 1..Len(m) |->
                     SeqProduct([c \in 1..Len(m[r]) |-> CastInt8(DivByScale(m[r][c], s))])])
    IN  {[cast |-> k,
          q |-> [r \in 1..Len(m) |-> [c \in 1..Len(m[r]) |-> Clip(k[r][c], qmax)]],
          scale |-> s,
          warn |-> DivWarnings(m, s, max_val, qmax)] : k \in casts}

(* q.astype(np.float32) * scale, element-wise *)
MulByScale(q, s) ==
    CASE s.tag = "nan" -> NaN
      [] s.tag = "inf" -> (IF q = 0 THEN NaN ELSE Inf)
      [] OTHER -> Fin(q * s.n, s.d)

dequantize_symmetric(q, s) ==
    [r \in 1..Len(q) |-> [c \in 1..Len(q[r]) |-> MulByScale(q[r][c], s)]]

----------------------------------------------------------------------------
(* Cell 1: quantized_matrix, scale = quantize_symmetric(matrix, num_bits) *)
QuantizeCell ==
    /\ \E res \in quantize_symmetric(x, num_bits) :
          /\ quantized_matrix' = res.q
          /\ q_cast' = res.cast
          /\ scale' = res.scale
          /\ fpe' = fpe \cup res.warn
    /\ bound' = bound \cup {"quantized_matrix", "scale"}
    /\ exc' = "none"
    /\ last' = "quantize"
    /\ UNCHANGED <<x, num_bits, reconstructed_matrix, cbvars, jobvars>>

(* Cell 2: reconstructed_matrix = dequantize_symmetric(quantized_matrix, scale) *)
DequantizeCell ==
    /\ last' = "dequantize"
    /\ IF "quantized_matrix" \in bound
       THEN /\ reconstructed_matrix' = dequantize_symmetric(quantized_matrix, scale)
            /\ bound' = bound \cup {"reconstructed_matrix"}
            /\ exc' = "none"
       ELSE /\ exc' = "NameError"
            /\ UNCHANGED <<reconstructed_matrix, bound>>
    /\ UNCHANGED <<x, num_bits, quantized_matrix, scale, q_cast, fpe, cbvars, jobvars>>

(* Inputs of the uniform quantizer: every 1 x 2 matrix over the value range,
   and the sample matrix *)
UQValues == (-MaxAbsX)..MaxAbsX
UQMatrices == {<< <<a, b>> >> : a \in UQValues, b \in UQValues} \cup {create_sample_matrix}

InitUQ ==
    /\ x \in UQMatrices
    /\ num_bits \in 1..MaxBits
    /\ bound = {}
    /\ exc = "none"
    /\ last = ""
    /\ fpe = {}
    /\ quantized_matrix = <<>>
    /\ q_cast = <<>>
    /\ scale = NaN
    /\ reconstructed_matrix = <<>>
    /\ matrix = <<>> /\ K = 0 /\ M = 0 /\ pc = 0
    /\ codebook = <<>> /\ indices = <<>> /\ reconstructed = <<>>
    /\ sub_dim = 0 /\ codebooks = <<>> /\ pq_codes = <<>> /\ reconstructed_pq = <<>>
    /\ query = <<>> /\ query_subs = <<>> /\ lookup_tables = <<>> /\ dot_products = <<>>
    /\ NoJobs

NextUQ == QuantizeCell \/ DequantizeCell

SpecUQ == InitUQ /\ [][NextUQ]_vars

----------------------------------------------------------------------------
(* Codebook quantization (cells 3 to 6).  The constants of the cells (the
   matrix, K, M, pc) are drawn when the kernel starts. *)

(* Bound of the query coefficients *)
MaxQ == 1

(* Shapes and constants the cells are run with: n x d matrix, K VQ centroids,
   M subspaces, pc clusters per subspace *)
Configs ==
    { [n |-> 2, d |-> 4, K |-> 1, M |-> 2, pc |-> 2],
      [n |-> 3, d |-> 2, K |-> 1, M |-> 1, pc |-> 2],
      [n |-> 2, d |-> 3, K |-> 1, M |-> 2, pc |-> 1],
      [n |-> 2, d |-> 2, K |-> 2, M |-> 2, pc |-> 2],
      [n |-> 2, d |-> 2, K |-> 1, M |-> 3, pc |-> 1],
      [n |-> 1, d |-> 2, K |-> 3, M |-> 1, pc |-> 2] }

(* Values of the matrix entries *)
Levels == {0, 1}

RECURSIVE Gcd(_, _)
Gcd(a, b) == IF b = 0 THEN a ELSE Gcd(b, a % b)

RECURSIVE LcmUpTo(_)
LcmUpTo(k) == IF k <= 1 THEN 1
              ELSE LET l == LcmUpTo(k - 1) IN (l * k) \div Gcd(l, k)

(* Entries are stored as multiples of 1/Den, so that the mean of any cluster
   of samples is an integer number of units *)
MaxSamples == CHOOSE m \in {c.n * c.d : c \in Configs} :
                  \A c \in Configs : c.n * c.d <= m
Den == LcmUpTo(MaxSamples)

RECURSIVE SeqSum(_)
SeqSum(s) == IF Len(s) = 0 THEN 0 ELSE s[1] + SeqSum(Tail(s))

(* np.dot of two vectors of equal length *)
Dot(a, b) == SeqSum([i \in 1..Len(a) |-> a[i] * b[i]])

(* squared Euclidean distance *)
SqDist(a, b) == SeqSum([i \in 1..Len(a) |-> (a[i] - b[i]) * (a[i] - b[i])])

(* v[lo:hi] with 0-based lo, exclusive hi, truncated at the end like a slice *)
Slice(v, lo, hi) ==
    LET h == IF hi > Len(v) THEN Len(v) ELSE hi
    IN  IF h <= lo THEN <<>> ELSE [i \in 1..(h - lo) |-> v[lo + i]]

(* kmeans.predict for one sample: index (0-based) of the closest centre;
   the scan keeps the first minimum *)
RECURSIVE ArgMinLast(_, _, _, _)
ArgMinLast(sample, centers, j, best) ==
    IF j > Len(centers) THEN best - 1
    ELSE IF SqDist(sample, centers[j]) <= SqDist(sample, centers[best])
         THEN ArgMinLast(sample, centers, j + 1, j)
         ELSE ArgMinLast(sample, centers, j + 1, best)
RECURSIVE ArgMin(_, _, _, _)
ArgMin(sample, centers, j, best) ==
    IF j > Len(centers) THEN best - 1
    ELSE IF SqDist(sample, centers[j]) < SqDist(sample, centers[best])
         THEN ArgMin(sample, centers, j + 1, j)
         ELSE ArgMin(sample, centers, j + 1, best)

PredictLast(sample, centers) == ArgMinLast(sample, centers, 2, 1)
Predict(sample, centers) == ArgMin(sample, centers, 2, 1)

(* mean of the samples with index in S (S nonempty) *)
MeanOf(samples, S) ==
    [c \in 1..Len(samples[1]) |->
        SeqSum([i \in 1..Len(samples) |-> IF i \in S THEN samples[i][c] ELSE 0])
            \div Cardinality(S)]

(* centres a labelling yields: the mean of each cluster; an empty cluster is
   relocated onto a sample *)
CentersOf(samples, lab, k) ==
    SeqProduct([j \in 1..k |->
        LET S == {i \in 1..Len(samples) : lab[i] = j - 1}
        IN  IF S = {} THEN {samples[i] : i \in 1..Len(samples)}
            ELSE {MeanOf(samples, S)}])

(* KMeans(n_clusters=k, random_state=0).fit(samples).cluster_centers_: the
   centres of a converged Lloyd iteration (the labels are the prediction of
   the centres, the centres the means of their clusters).  Which of them the
   seeded initialisation reaches is not modelled: any. *)
KMeansFit(samples, k) ==
    UNION { {cb \in CentersOf(samples, lab, k) :
                \A i \in 1..Len(samples) : Predict(samples[i], cb) = lab[i]} :
            lab \in [1..Len(samples) -> 0..(k - 1)] }

(* n_samples >= n_clusters and at least one feature, else fit raises ValueError *)
FitAccepts(samples, k) ==
    /\ Len(samples) >= k
    /\ Len(samples[1]) >= 1

(* data.reshape(-1, 1): every entry a one-dimensional sample, row-major *)
Flatten(m) ==
    [i \in 1..(Len(m) * Len(m[1])) |->
        << m[((i - 1) \div Len(m[1])) + 1][((i - 1) % Len(m[1])) + 1] >>]

(* subspaces = [matrix[:, i*sub_dim:(i+1)*sub_dim] for i in range(M)] *)
Subspace(m, i, sd) == [r \in 1..Len(m) |-> Slice(m[r], i * sd, (i + 1) * sd)]

RECURSIVE Concat(_)
Concat(ss) == IF Len(ss) = 0 THEN <<>> ELSE ss[1] \o Concat(Tail(ss))


(* random_state=0: a fit of the same samples returns the same centres, so a
   cell run again reproduces the centres it bound before *)
Refit(name, old, new) == name \in bound => new = old

(* flat.reshape(data.shape) *)
Reshape(flat, n, d) == [r \in 1..n |-> [c \in 1..d |-> flat[(r - 1) * d + c]]]

(* Cell 3: VQ training and encoding of every entry of the matrix *)
VQCell ==
    /\ last' = "vq"
    /\ LET flat_data == Flatten(matrix)
       IN  IF FitAccepts(flat_data, K)
           THEN /\ \E centers \in KMeansFit(flat_data, K) :
                     /\ codebook' = [j \in 1..K |-> centers[j][1]]
                     /\ Refit("codebook", codebook, codebook')
                     /\ indices' = [i \in 1..Len(flat_data) |-> Predict(flat_data[i], centers)]
                /\ bound' = bound \cup {"data", "flat_data", "K", "codebook", "indices"}
                /\ exc' = "none"
           ELSE /\ exc' = "ValueError"
                /\ bound' = bound \cup {"data", "flat_data", "K"}
                /\ UNCHANGED <<codebook, indices>>
    /\ UNCHANGED <<uqvars, cfgvars, reconstructed, pqvars, lkvars, jobvars>>

(* Cell 4: VQ decoding, codebook[indices] *)
VQDecodeCell ==
    /\ last' = "vq_decode"
    /\ IF {"codebook", "indices", "data"} \subseteq bound
       THEN /\ reconstructed' =
                   Reshape([i \in 1..Len(indices) |-> codebook[indices[i] + 1]],
                           Len(matrix), Len(matrix[1]))
            /\ bound' = bound \cup {"reconstructed"}
            /\ exc' = "none"
       ELSE /\ exc' = "NameError"
            /\ UNCHANGED <<reconstructed, bound>>
    /\ UNCHANGED <<uqvars, cfgvars, codebook, indices, pqvars, lkvars, jobvars>>

(* codebooks[i][pq_codes[:, i]] stacked over the subspaces, for row r *)
DecodeRow(cbs, codes_r) == Concat([i \in 1..Len(cbs) |-> cbs[i][codes_r[i] + 1]])

(* Cell 5: PQ training, encoding and decoding *)
PQCell ==
    /\ last' = "pq"
    /\ sub_dim' = Len(matrix[1]) \div M
    /\ LET subspaces == [i \in 1..M |-> Subspace(matrix, i - 1, sub_dim')]
       IN  IF \A i \in 1..M : FitAccepts(subspaces[i], pc)
           THEN /\ \E cbs \in SeqProduct([i \in 1..M |-> KMeansFit(subspaces[i], pc)]) :
                     /\ codebooks' = cbs
                     /\ Refit("pq_codes", codebooks, cbs)
                     /\ \A i, j \in 1..M : subspaces[i] = subspaces[j] => cbs[i] = cbs[j]
                     /\ pq_codes' = [r \in 1..Len(matrix) |->
                                       [i \in 1..M |-> Predict(subspaces[i][r], cbs[i])]]
                     /\ reconstructed_pq' =
                            [r \in 1..Len(matrix) |-> DecodeRow(cbs, pq_codes'[r])]
                /\ bound' = bound \cup {"matrix", "n", "d", "M", "pc", "sub_dim", "subspaces",
                                        "codebooks", "codes", "pq_codes", "reconstructed_pq"}
                /\ exc' = "none"
           ELSE \* the first fit raises: codebooks and codes are the empty lists
                /\ codebooks' = <<>>
                /\ exc' = "ValueError"
                /\ bound' = bound \cup {"matrix", "n", "d", "M", "pc", "sub_dim", "subspaces",
                                        "codebooks", "codes"}
                /\ UNCHANGED <<pq_codes, reconstructed_pq>>
    /\ UNCHANGED <<uqvars, cfgvars, vqvars, lkvars, jobvars>>

(* query[i*sub_dim : (i+1)*sub_dim] *)
QuerySubAt(q, i, sd) == Slice(q, i, i + sd)
QuerySub(q, i, sd) == Slice(q, i * sd, (i + 1) * sd)

(* lookup_tables[i] = np.dot(query_subs[i], codebooks[i].T) *)
LookupTable(qsub, centers) == [j \in 1..Len(centers) |-> Dot(qsub, centers[j])]

(* dp = sum(lookup_tables[i][pq_codes[row_idx, i]] for i in range(M)) *)
LookupDot(tables, codes_r) == SeqSum([i \in 1..Len(tables) |-> tables[i][codes_r[i] + 1]])

(* the exception the lookup cell ends with *)
LookupExc(names, cbs, m) ==
    IF ~({"M", "sub_dim"} \subseteq names) THEN "NameError"
    ELSE IF Len(cbs) < m THEN "IndexError"
    ELSE "none"

(* the names a failing lookup cell has bound before it raises *)
LookupFailBindsTables(e) == {"query", "lookup_tables"}
LookupFailBinds(e) == IF e = "NameError" THEN {"query"} ELSE {"query", "query_subs"}

(* Queries: the ramps a*i + b over the columns *)
Queries(d) == {[i \in 1..d |-> a * i + b] : a \in 0..MaxQ, b \in 0..MaxQ}

(* Cell 6: lookup tables of a query and the dot products of all rows *)
LookupCell ==
    /\ last' = "lookup"
    /\ \E q \in Queries(Len(matrix[1])) :
         LET e == LookupExc(bound, codebooks, M)
             subs == [i \in 1..M |-> QuerySub(q, i - 1, sub_dim)]
         IN  /\ query' = q
             /\ exc' = e
             /\ IF e = "none"
                THEN /\ query_subs' = subs
                     /\ lookup_tables' = [i \in 1..M |-> LookupTable(subs[i], codebooks[i])]
                     /\ dot_products' = [r \in 1..Len(pq_codes) |->
                                            LookupDot(lookup_tables', pq_codes[r])]
                     /\ bound' = bound \cup {"query", "query_subs", "lookup_tables",
                                             "dot_products"}
                ELSE /\ query_subs' = IF e = "NameError" THEN query_subs ELSE subs
                     /\ bound' = bound \cup LookupFailBinds(e)
                     /\ UNCHANGED <<lookup_tables, dot_products>>
    /\ UNCHANGED <<uqvars, cfgvars, vqvars, pqvars, jobvars>>

Values == {Den * v : v \in Levels}
Matrices(n, d) == [1..n -> [1..d -> Values]]

InitCB ==
    /\ \E c \in Configs :
         /\ matrix \in Matrices(c.n, c.d)
         /\ K = c.K /\ M = c.M /\ pc = c.pc
    /\ bound = {}
    /\ exc = "none"
    /\ last = ""
    /\ codebook = <<>> /\ indices = <<>> /\ reconstructed = <<>>
    /\ sub_dim = 0 /\ codebooks = <<>> /\ pq_codes = <<>> /\ reconstructed_pq = <<>>
    /\ query = <<>> /\ query_subs = <<>> /\ lookup_tables = <<>> /\ dot_products = <<>>
    /\ x = <<>> /\ num_bits = 0 /\ fpe = {}
    /\ quantized_matrix = <<>> /\ q_cast = <<>> /\ scale = NaN
    /\ reconstructed_matrix = <<>>
    /\ NoJobs

Next == VQCell \/ VQDecodeCell \/ PQCell \/ LookupCell

Spec == InitCB /\ [][Next]_vars

----------------------------------------------------------------------------
(* The training loop of cell 5 (for sub in subspaces), one job per subspace.
   A job is one pass of the loop body: fit, append the centres, append the
   codes.  The fits are taken in any order and interleave with the appends
   of other jobs; the run i = 0..M-1 of the notebook is one of the
   schedules.  Every job has its own estimator object (the loop constructs a
   new KMeans per pass).  codebooks and codes are the lists of the notebook:
   an append adds at the end, so job i appends once the lists hold the
   entries of the subspaces before it. *)

(* the element at position r of a fixed enumeration of a finite set *)
RECURSIVE Nth(_, _)
Nth(S, r) == LET e == CHOOSE e \in S : TRUE
             IN  IF r = 0 THEN e ELSE Nth(S \ {e}, r - 1)

(* random_state=0: the estimator draws from a generator of its own, started
   at the seed, and leaves numpy's global generator (at g draws) alone;
   "draws" is the state the fit starts from, "global" the global generator
   after the fit *)
RandomStateGlobal(g) == [draws |-> g, global |-> g + 1]
RandomState(g) == [draws |-> 0, global |-> g]

(* KMeans(n_clusters=k, random_state=...).fit(samples).cluster_centers_ for
   a generator at r draws: the initialisation, and so the converged solution
   the fit reaches, is a function of the samples and the generator state *)
FitFrom(samples, k, r) ==
    LET S == KMeansFit(samples, k)
    IN  Nth(S, r % Cardinality(S))

(* kmeans.predict(sub) *)
PredictAll(samples, centers) ==
    [r \in 1..Len(samples) |-> Predict(samples[r], centers)]

(* Cell 5 up to the loop: the constants, the split, the empty lists *)
PQPrepare ==
    /\ last = ""
    /\ last' = "pq_loop"
    /\ sub_dim' = Len(matrix[1]) \div M
    /\ codebooks' = <<>>
    /\ codes' = <<>>
    /\ kmeans' = [i \in 1..M |-> <<>>]
    /\ jobpc' = [i \in 1..M |-> "fit"]
    /\ order' = <<>>
    /\ bound' = bound \cup {"matrix", "n", "d", "M", "pc", "sub_dim", "subspaces",
                            "codebooks", "codes"}
    /\ exc' = "none"
    /\ UNCHANGED <<uqvars, cfgvars, vqvars, pq_codes, reconstructed_pq, lkvars, rng>>

(* kmeans = KMeans(n_clusters=pc, random_state=0).fit(sub) of subspace i *)
FitJob(i) ==
    /\ last = "pq_loop"
    /\ jobpc[i] = "fit"
    /\ LET sub == Subspace(matrix, i - 1, sub_dim)
           rs == RandomState(rng)
       IN  IF FitAccepts(sub, pc)
           THEN /\ kmeans' = [kmeans EXCEPT ![i] = FitFrom(sub, pc, rs.draws)]
                /\ rng' = rs.global
                /\ jobpc' = [jobpc EXCEPT ![i] = "append_codebook"]
                /\ UNCHANGED exc
           ELSE /\ exc' = "ValueError"
                /\ jobpc' = [jobpc EXCEPT ![i] = "raised"]
                /\ UNCHANGED <<kmeans, rng>>
    /\ order' = Append(order, i)
    /\ UNCHANGED <<uqvars, cfgvars, vqvars, pqvars, lkvars, bound, last, codes>>

(* codebooks.append(kmeans.cluster_centers_) of subspace i *)
AppendCodebook(i) ==
    /\ last = "pq_loop"
    /\ jobpc[i] = "append_codebook"
    /\ Len(codebooks) = i - 1
    /\ codebooks' = Append(codebooks, kmeans[i])
    /\ jobpc' = [jobpc EXCEPT ![i] = "append_codes"]
    /\ UNCHANGED <<uqvars, cfgvars, vqvars, sub_dim, pq_codes, reconstructed_pq, lkvars,
                   kernel, rng, order, kmeans, codes>>

(* codes.append(kmeans.predict(sub)) of subspace i *)
AppendCodes(i) ==
    /\ last = "pq_loop"
    /\ jobpc[i] = "append_codes"
    /\ Len(codes) = i - 1
    /\ codes' = Append(codes, PredictAll(Subspace(matrix, i - 1, sub_dim), kmeans[i]))
    /\ jobpc' = [jobpc EXCEPT ![i] = "done"]
    /\ UNCHANGED <<uqvars, cfgvars, vqvars, pqvars, lkvars, kernel, rng, order, kmeans>>

(* after the loop: pq_codes = np.stack(codes, axis=1) and the reconstruction *)
PQStack ==
    /\ last = "pq_loop"
    /\ \A i \in 1..M : jobpc[i] = "done"
    /\ last' = "pq"
    /\ pq_codes' = [r \in 1..Len(matrix) |-> [i \in 1..M |-> codes[i][r]]]
    /\ reconstructed_pq' = [r \in 1..Len(matrix) |-> DecodeRow(codebooks, pq_codes'[r])]
    /\ bound' = bound \cup {"pq_codes", "reconstructed_pq"}
    /\ UNCHANGED <<uqvars, cfgvars, vqvars, sub_dim, codebooks, lkvars, exc, jobvars>>

(* the loop as the notebook runs it, i = 0..M-1 from subspace i on, with the
   global generator at g draws: per subspace the centres and the codes *)
RECURSIVE TrainLoop(_, _, _, _, _, _)
TrainLoop(m, sd, k, i, nsub, g) ==
    IF i > nsub THEN <<>>
    ELSE LET sub == Subspace(m, i - 1, sd)
             rs == RandomState(g)
             centers == FitFrom(sub, k, rs.draws)
         IN  << [codebook |-> centers, codes |-> PredictAll(sub, centers)] >>
                 \o TrainLoop(m, sd, k, i + 1, nsub, rs.global)

NextPQ ==
    \/ PQPrepare
    \/ \E i \in 1..M : FitJob(i)
    \/ \E i \in 1..M : AppendCodebook(i)
    \/ \E i \in 1..M : AppendCodes(i)
    \/ PQStack

SpecPQ == InitCB /\ [][NextPQ]_vars

----------------------------------------------------------------------------
(* Properties of the uniform quantizer, checked under SpecUQ *)

Quantized == "quantized_matrix" \in bound
ValidUQ == MaxAbs(x) # 0 /\ num_bits >= 2
Cells(m) == {<<r, c>> : r \in 1..Len(m), c \in 1..Len(m[1])}

(* the codes the formula clamp(round(x/scale), -qmax, qmax) prescribes, with
   scale = max|x| / qmax and qmax = 2^(num_bits-1) - 1 *)
FormulaCode(v) ==
    LET qmax == 2^(num_bits - 1) - 1
        rnd == RoundHalfEven(v * qmax, MaxAbs(x))
    IN  IF rnd > qmax THEN qmax ELSE IF rnd < -qmax THEN -qmax ELSE rnd

(* C2: for a matrix with a nonzero element and num_bits >= 2 the returned
   scale is max|x|/qmax and every code is clamp(round(x/scale), -qmax, qmax);
   for the sample matrix with num_bits = 8 the scale is 2.5/127 and row 0 of
   the codes is [5, -25, 0, 51]. *)
C2_QuantizeFormula ==
    (Quantized /\ ValidUQ) =>
        /\ scale.tag = "fin"
        /\ scale.n * (2^(num_bits - 1) - 1) = MaxAbs(x) * scale.d
        /\ \A rc \in Cells(x) :
              quantized_matrix[rc[1]][rc[2]] = FormulaCode(x[rc[1]][rc[2]])
        /\ (x = create_sample_matrix /\ num_bits = 8) =>
              /\ scale.n * 127 = 25 * scale.d
              /\ quantized_matrix[1] = <<5, -25, 0, 51>>

(* The same statement for the widths an int8 holds (num_bits <= 8) *)
QuantizeFormulaInt8 == (num_bits <= Int8Bits) => C2_QuantizeFormula

(* The recorded output of cell 1 *)
RecordedCodes ==
    (Quantized /\ x = create_sample_matrix /\ num_bits = 8) =>
        quantized_matrix = << <<5, -25, 0, 51>>, <<127, -61, 36, -15>>, <<46, 76, -102, 10>> >>

(* C3: for a matrix with a nonzero element and num_bits >= 2, every element
   that was not clamped satisfies |x - dequantize(quantize(x))| <= scale/2. *)
C3_RoundTripError ==
    ("reconstructed_matrix" \in bound /\ ValidUQ) =>
        \A rc \in Cells(x) :
            LET r == rc[1]
                c == rc[2]
                y == reconstructed_matrix[r][c]
            IN  (quantized_matrix[r][c] = q_cast[r][c]) =>
                    /\ y.tag = "fin" /\ scale.tag = "fin"
                    /\ 2 * scale.d * Abs(x[r][c] * y.d - y.n) <= scale.n * y.d

RoundTripErrorInt8 == (num_bits <= Int8Bits) => C3_RoundTripError

(* C4: for a matrix with a nonzero element and num_bits >= 2, every code
   returned by quantize_symmetric lies in [-qmax, qmax], qmax = 2^(num_bits-1) - 1. *)
C4_CodesInRange ==
    (Quantized /\ ValidUQ) =>
        \A rc \in Cells(x) :
            /\ quantized_matrix[rc[1]][rc[2]] >= -(2^(num_bits - 1) - 1)
            /\ quantized_matrix[rc[1]][rc[2]] <= 2^(num_bits - 1) - 1

(* a valid call returned, with a code on each end of the range *)
C4_Witness ==
    /\ Quantized /\ ValidUQ
    /\ \E rc \in Cells(x) : quantized_matrix[rc[1]][rc[2]] = 2^(num_bits - 1) - 1
    /\ \E rc \in Cells(x) : quantized_matrix[rc[1]][rc[2]] = -(2^(num_bits - 1) - 1)

(* C8: quantize_symmetric with num_bits < 2 fails (the call ends with an
   exception) at its start, before any scale or codes are computed, and
   returns nothing. *)
C8_ConfigErrorOnNumBits ==
    (num_bits < 2 /\ last = "quantize") =>
        /\ exc # "none"
        /\ ~Quantized
        /\ fpe = {}

(* C9: on an all-zero matrix quantize_symmetric raises, or returns without
   ever dividing x by a zero scale and without codes derived from it. *)
C9_ZeroMatrixHandled ==
    (MaxAbs(x) = 0 /\ num_bits >= 2 /\ last = "quantize") =>
        \/ exc # "none"
        \/ "x/scale" \notin fpe

----------------------------------------------------------------------------
(* Properties of the codebook quantizers and the lookup engine, under Spec *)

TrainedVQ == "codebook" \in bound
TrainedPQ == "pq_codes" \in bound
Cols == Len(matrix[1])
Rows == 1..Len(matrix)

(* C1: for a query of dimension d = M * sub_dim, the lookup result
   sum_i tables[i][row_codes[i]], with tables[i][j] the dot product of the
   i-th query slice and centroid j of codebook i, equals the direct dot
   product of the query with the PQ-decoded row. *)
C1_LookupEqualsDirectDot ==
    ("dot_products" \in bound /\ Cols = M * sub_dim) =>
        \A r \in Rows :
            dot_products[r] =
                Dot(query, Concat([i \in 1..M |-> codebooks[i][pq_codes[r][i] + 1]]))

(* two subspaces of two columns each, rows with different codes, and dot
   products that differ and are not zero *)
C1_Witness ==
    /\ "dot_products" \in bound
    /\ M = 2 /\ sub_dim = 2 /\ Cols = 4
    /\ pq_codes[1] # pq_codes[2]
    /\ dot_products[1] # dot_products[2]
    /\ dot_products[1] # 0 /\ dot_products[2] # 0

(* code is the lowest index among the centres closest to the sample *)
NearestLowest(sample, centers, code) ==
    /\ code \in 0..(Len(centers) - 1)
    /\ \A j \in 1..Len(centers) :
          /\ SqDist(sample, centers[code + 1]) <= SqDist(sample, centers[j])
          /\ (j < code + 1) => SqDist(sample, centers[code + 1]) < SqDist(sample, centers[j])

(* C5: every VQ code (of each scalar entry) and every PQ code (of each row's
   sub-vector in each subspace) is an index in [0, K-1] of a centroid at
   minimal L2 distance, the lowest such index. *)
C5_NearestCentroid ==
    /\ TrainedVQ =>
          \A r \in Rows : \A c \in 1..Cols :
              NearestLowest(<<matrix[r][c]>>,
                            [j \in 1..Len(codebook) |-> <<codebook[j]>>],
                            indices[(r - 1) * Cols + c])
    /\ TrainedPQ =>
          \A r \in Rows : \A i \in 1..M :
              NearestLowest([k \in 1..sub_dim |-> matrix[r][(i - 1) * sub_dim + k]],
                            codebooks[i], pq_codes[r][i])

(* both quantizers trained; one sub-vector has two centroids at the same
   minimal distance, another is strictly closer to a centroid other than 0 *)
C5_Witness ==
    /\ TrainedVQ /\ TrainedPQ
    /\ Len(codebook) >= 2 /\ pc >= 2
    /\ \E r \in Rows : \E i \in 1..M :
          LET sv == [k \in 1..sub_dim |-> matrix[r][(i - 1) * sub_dim + k]]
          IN  /\ pq_codes[r][i] = 0
              /\ SqDist(sv, codebooks[i][1]) = SqDist(sv, codebooks[i][2])
    /\ \E r \in Rows : \E i \in 1..M : pq_codes[r][i] = 1

(* C6: decode(encode(x)) reproduces exactly every sample that coincides with
   a centroid: a VQ entry equal to a centroid is reconstructed as itself, and
   a row whose sub-vector in every subspace equals a centroid of that
   subspace's codebook is decoded to the original row. *)
C6_ExactOnCentroids ==
    /\ "reconstructed" \in bound =>
          \A r \in Rows : \A c \in 1..Cols :
              (\E j \in 1..Len(codebook) : codebook[j] = matrix[r][c])
                  => reconstructed[r][c] = matrix[r][c]
    /\ TrainedPQ =>
          \A r \in Rows :
              (\A i \in 1..M : \E j \in 1..pc :
                    codebooks[i][j] = Slice(matrix[r], (i - 1) * sub_dim, i * sub_dim))
                  => reconstructed_pq[r] = matrix[r]

(* The same statement where M divides the number of columns *)
ExactOnCentroidsDivisible == (Cols % M = 0) => C6_ExactOnCentroids

(* C10: PQ fails (the cell ends with an exception) whenever d % M # 0, before
   any codebook is trained or code produced; when d % M = 0 the subspaces are
   the M contiguous slices of sub_dim = d/M columns covering every column
   once, and the decoded matrix has d columns. *)
C10_ConfigErrorOnIndivisible ==
    /\ (last = "pq" /\ Cols % M # 0) =>
          /\ exc # "none"
          /\ ~TrainedPQ
          /\ codebooks = <<>>
    /\ (TrainedPQ /\ Cols % M = 0) =>
          /\ sub_dim * M = Cols
          /\ \A r \in Rows :
                /\ Concat([i \in 1..M |-> Subspace(matrix, i - 1, sub_dim)[r]]) = matrix[r]
                /\ Len(reconstructed_pq[r]) = Cols

(* The second half alone *)
SlicesCoverWhenDivisible == (Cols % M = 0) => C10_ConfigErrorOnIndivisible

(* C7 as stated: encode, decode and build_tables before a successful train
   fail with UsageError and produce no artifact. *)
C7_UsageErrorBeforeTrain ==
    /\ (last = "lookup" /\ ~TrainedPQ) =>
          /\ exc = "UsageError"
          /\ "lookup_tables" \notin bound /\ "dot_products" \notin bound
    /\ (last = "vq_decode" /\ ~TrainedVQ) =>
          /\ exc = "UsageError"
          /\ "reconstructed" \notin bound

(* C7, amended: the lookup cell run before a successful PQ training and the
   VQ decode cell run before a successful VQ training fail with a NameError
   (the lookup cell with an IndexError after a failed PQ training) and bind
   no lookup table, dot product or reconstruction; once trained, a quantizer
   stays trained and no later cell changes its codebooks. *)
C7_FailBeforeTrainThenImmutable ==
    [][ /\ (last' = "lookup" /\ ~TrainedPQ) =>
              /\ exc' \in {"NameError", "IndexError"}
              /\ "lookup_tables" \notin bound' /\ "dot_products" \notin bound'
              /\ UNCHANGED <<lookup_tables, dot_products>>
        /\ (last' = "vq_decode" /\ ~TrainedVQ) =>
              /\ exc' = "NameError"
              /\ "reconstructed" \notin bound'
              /\ UNCHANGED reconstructed
        /\ TrainedPQ => (TrainedPQ' /\ codebooks' = codebooks)
        /\ TrainedVQ => (TrainedVQ' /\ codebook' = codebook)
        /\ (last' \in {"lookup", "vq_decode"}) => UNCHANGED <<codebooks, codebook>>
        /\ (last' = "lookup" /\ TrainedPQ) => exc' = "none"
        /\ (last' = "vq_decode" /\ TrainedVQ) => exc' = "none"
      ]_vars

(* the VQ decode cell has just failed on an untrained VQ, and the lookup
   cell has run on a trained PQ *)
C7_Witness ==
    /\ last = "vq_decode" /\ exc = "NameError" /\ ~TrainedVQ
    /\ TrainedPQ /\ "dot_products" \in bound /\ "query_subs" \in bound
    /\ "reconstructed" \notin bound

----------------------------------------------------------------------------
(* Independence of the subspace training jobs, checked under SpecPQ *)

(* the matrix with every column outside subspace i (1-based) set to zero *)
OnlySubspace(m, i, sd) ==
    [r \in 1..Len(m) |->
        [c \in 1..Len(m[1]) |-> IF (i - 1) * sd < c /\ c <= i * sd THEN m[r][c] ELSE 0]]

(* the result of the sequential run on matrix m *)
Sequential(m) == TrainLoop(m, sub_dim, pc, 1, M, 0)

(* C11: whatever the order and interleaving in which the M subspace
   training jobs run, the centres a job fits (codebooks[i]) and its codes
   (column i of the code matrix) are those of the sequential run i = 0..M-1,
   and they are the same when every column outside subspace i is replaced:
   they depend only on the columns of subspace i.  The resulting codebooks
   and code matrix equal those of the sequential run. *)
C11_SubspaceJobsIndependent ==
    LET seq == Sequential(matrix)
    IN  /\ \A i \in DOMAIN jobpc :
             LET own == Sequential(OnlySubspace(matrix, i, sub_dim))
             IN  /\ jobpc[i] \in {"append_codebook", "append_codes", "done"} =>
                      /\ kmeans[i] = seq[i].codebook
                      /\ kmeans[i] = own[i].codebook
                 /\ i <= Len(codebooks) =>
                      /\ codebooks[i] = seq[i].codebook
                      /\ codebooks[i] = own[i].codebook
                 /\ i <= Len(codes) =>
                      /\ codes[i] = seq[i].codes
                      /\ codes[i] = own[i].codes
        /\ last = "pq" =>
             /\ codebooks = [i \in 1..M |-> seq[i].codebook]
             /\ pq_codes = [r \in 1..Len(matrix) |-> [i \in 1..M |-> seq[i].codes[r]]]

(* the fit of subspace 1 ran before the fit of subspace 0, whose job has
   since finished while the job of subspace 1 still holds its centres; the
   subspaces differ and the fit of subspace 1 has more than one converged
   solution *)
C11_Witness ==
    /\ last = "pq_loop" /\ M = 2
    /\ order = <<2, 1>>
    /\ jobpc[1] = "done" /\ jobpc[2] = "append_codebook"
    /\ Len(codebooks) = 1 /\ Len(codes) = 1
    /\ Subspace(matrix, 0, sub_dim) # Subspace(matrix, 1, sub_dim)
    /\ Cardinality(KMeansFit(Subspace(matrix, 1, sub_dim), pc)) >= 2
====
